---- MODULE Spec2Model ----
(***************************************************************************)
(* Model of the array! macro of the array-macro crate (src/src/lib.rs).    *)
(*                                                                         *)
(* One behaviour is a caller that invokes array! with a count N and an     *)
(* initializer, lets the expansion run to completion (a returned array or  *)
(* a panic that unwinds to the caller), and then invokes it a second time  *)
(* with the same initializer, possibly through another call syntax and     *)
(* with an element type of another drop-class, as the doc test does.       *)
(* The expansion is modelled statement by statement; indices are 0-based   *)
(* as in the source.                                                       *)
(***************************************************************************)
EXTENDS Integers, Sequences, FiniteSets, TLC

\* ---------------------------------------------------------------- bounds
MaxN == 3          \* largest $count explored
MaxRuns == 2       \* number of consecutive array! invocations of the caller

\* ---------------------------------------------------------------- values
Vals == 0 .. (MaxN - 1)      \* payloads an initializer call may return
AbortV == 0 - 1              \* the initializer call panics
NoPanic == 0 - 1             \* no panic is unwinding

\* An uninitialized slot (mem::uninitialized): no object lives there.
Uninit == [id |-> 0, val |-> 0 - 1]

\* The three call syntaxes accepted by the macro.
Forms == {"value", "callback", "move"}

VARIABLES
    N,            \* $count
    form,         \* the call syntax used by the caller
    ignoresIndex, \* the initializer body does not look at its argument
    beh,          \* the initializer's behaviour: key -> payload or AbortV
    needsDrop,    \* mem::needs_drop for the element type
    pc,           \* position of the expansion
    arr,          \* the backing storage, slot -> object or Uninit
    armed,        \* an ArrayVec guard is alive (built and not forgotten)
    position,     \* ArrayVec.position
    it,           \* the enumerate() counter of the running loop
    tmp,          \* the value returned by callback(i), not yet written
    evals,        \* number of evaluations of the initializer body so far
    calls,        \* log of initializer calls: <<[arg, ok, ret]>>
    dropI,        \* loop variable of ArrayVec::drop
    dropLog,      \* log of drop_in_place calls: sequence of slot indices
    panicked,     \* index whose initializer call panicked, or NoPanic
    result,       \* what the caller received: [some, arr]
    run,          \* ordinal of the current invocation
    prev          \* what the caller observed of the previous invocation

vars == <<N, form, ignoresIndex, beh, needsDrop, pc, arr, armed, position, it,
          tmp, evals, calls, dropI, dropLog, panicked, result, run, prev>>

Slots == 0 .. (N - 1)

NoResult == [some |-> FALSE, arr |-> [k \in {} |-> Uninit]]

NoPrev == [calls |-> <<>>, pc |-> "none", result |-> NoResult,
           form |-> "none", needsDrop |-> FALSE]

Terminal == pc \in {"returned", "aborted"}

\* ------------------------------------------------------- pure operators

\* mem::uninitialized(): every slot of the [_; $count] storage is raw.
Uninitialized(n) == [k \in 0 .. (n - 1) |-> Uninit]

\* The dispatch arms: the value form becomes the closure |_| $expr, which
\* cannot see the index; the two closure forms are passed through.
Dispatch(f, ign) == IF f = "value" THEN TRUE ELSE ign

\* What the initializer body's outcome depends on: the index it is given,
\* or (when it ignores the index) only on how often it ran before.
CallbackKey(ign, arg, e) == IF ign THEN e ELSE arg

\* Variant: the expression is evaluated into one instance that every call
\* hands out again.
SharedObject(e, v) == [id |-> 1, val |-> v]

\* Every evaluation of the body builds a new object.
FreshObject(e, v) == [id |-> e + 1, val |-> v]

\* Variant: the loop runs for the indices 0..n inclusive.
HasNextInclusive(i, n) == i <= n

\* Variant: the loop body runs at least once.
HasNextAtLeastOnce(i, n) == i < n \/ i = 0

\* enumerate() over slice.iter_mut(): is there a next (i, elem)?
HasNext(i, n) == i < n

\* Variant: the counter skips an index.
NextIndexSkip(i) == i + 2

\* enumerate(): the counter after yielding i.
NextIndex(i) == i + 1

\* Variants: the cursor is never updated; the cursor already counts the
\* slot under construction.
StalePosition(i) == 0
EagerPosition(i) == i + 1

\* vec.position = i
NewPosition(i) == i

\* Variant: the write goes to the slot after the one enumerated.
PtrWriteNext(a, i, v) == IF i + 1 \in DOMAIN a THEN [a EXCEPT ![i + 1] = v] ELSE a

\* Variant: the write always goes to the first slot.
PtrWriteFirst(a, i, v) == [a EXCEPT ![0] = v]

\* ptr::write(elem, v) where elem is slot i.
PtrWrite(a, i, v) == [a EXCEPT ![i] = v]

\* Variant: the panic is swallowed and the loop goes on.
AfterCallSwallow(ok, next) == next

\* Where control goes after callback(i): a panic starts unwinding.
AfterCall(ok, next) == IF ok THEN next ELSE "unwind"

\* Variant: the guard is not forgotten.
MemForgetMissing(a) == a

\* mem::forget(vec): the guard is consumed without running its destructor.
MemForget(a) == FALSE

\* Variant: the cleanup loop starts at the second slot.
DropStartOne == 0 + 1

\* Variant: the cleanup loop stops one slot early.
DropHasNextShort(i, pos) == i < pos - 1

\* Variant: the cleanup walks the slots from the cursor downwards.
DropIndexReverse(i, pos) == pos - 1 - i

\* for i in 0..self.position
DropStart == 0
DropHasNext(i, pos) == i < pos

\* self.slice.get_unchecked_mut(i): the slot handed to drop_in_place.
DropIndex(i, pos) == i

\* Variant: the guard's destructor ends the unwinding.
AfterDropCatch(p) == "into"

\* Where control goes when ArrayVec::drop returns: unwinding continues up to
\* the caller, or, had the guard gone out of scope normally, the block goes on.
AfterDrop(p) == IF p # NoPanic THEN "aborted" ELSE "into"

\* ManuallyDrop::into_inner(arr)
IntoInnerValue(a) == [some |-> TRUE, arr |-> a]

\* --------------------------------------------------------------- Init
Init ==
    /\ N \in 0 .. MaxN
    /\ form \in Forms
    /\ ignoresIndex \in BOOLEAN
    /\ (form = "value") => ignoresIndex
    /\ needsDrop \in BOOLEAN
    /\ beh = [k \in {} |-> 0]
    /\ pc = "start"
    /\ arr = [k \in {} |-> Uninit]
    /\ armed = FALSE
    /\ position = 0
    /\ it = 0
    /\ tmp = Uninit
    /\ evals = 0
    /\ calls = <<>>
    /\ dropI = 0
    /\ dropLog = <<>>
    /\ panicked = NoPanic
    /\ result = NoResult
    /\ run = 1
    /\ prev = NoPrev

\* -------------------------------------------------------------- actions

\* Variant: the guarded branch is taken whatever needs_drop says.
BeginAlwaysGuard ==
    /\ pc = "start"
    /\ arr' = Uninitialized(N)
    /\ pc' = "mkvec"
    /\ UNCHANGED <<N, form, ignoresIndex, beh, needsDrop, armed, position, it,
                   tmp, evals, calls, dropI, dropLog, panicked, result, run,
                   prev>>

\* let mut callback = $callback; let arr = uninitialized();
\* let needs_drop = needs_drop(&arr); ManuallyDrop::new(arr); if needs_drop
Begin ==
    /\ pc = "start"
    /\ arr' = Uninitialized(N)
    /\ pc' = IF needsDrop THEN "mkvec" ELSE "tnext"
    /\ UNCHANGED <<N, form, ignoresIndex, beh, needsDrop, armed, position, it,
                   tmp, evals, calls, dropI, dropLog, panicked, result, run,
                   prev>>

\* let mut vec = ArrayVec { slice: &mut *arr, position: 0 };
MakeVec ==
    /\ pc = "mkvec"
    /\ armed' = TRUE
    /\ position' = 0
    /\ it' = 0
    /\ pc' = "gnext"
    /\ UNCHANGED <<N, form, ignoresIndex, beh, needsDrop, arr, tmp, evals,
                   calls, dropI, dropLog, panicked, result, run, prev>>

\* for (i, elem) in vec.slice.iter_mut().enumerate()   (general path)
GNext ==
    /\ pc = "gnext"
    /\ pc' = IF HasNext(it, N) THEN "gpos" ELSE "forget"
    /\ UNCHANGED <<N, form, ignoresIndex, beh, needsDrop, arr, armed, position,
                   it, tmp, evals, calls, dropI, dropLog, panicked, result,
                   run, prev>>

\* vec.position = i;
GSetPos ==
    /\ pc = "gpos"
    /\ position' = NewPosition(it)
    /\ pc' = "gcall"
    /\ UNCHANGED <<N, form, ignoresIndex, beh, needsDrop, arr, armed, it, tmp,
                   evals, calls, dropI, dropLog, panicked, result, run, prev>>

\* callback(i): the initializer body runs once; it returns a new object or
\* panics.  Its behaviour on a key is fixed the first time the key is used.
CallCallback(next) ==
    LET key == CallbackKey(Dispatch(form, ignoresIndex), it, evals) IN
    \E o \in Vals \cup {AbortV} :
        /\ (key \in DOMAIN beh) => (o = beh[key])
        /\ beh' = [k \in DOMAIN beh \cup {key} |->
                      IF k = key THEN o ELSE beh[k]]
        /\ evals' = evals + 1
        /\ LET ok == o # AbortV
               v == IF ok THEN FreshObject(evals, o) ELSE Uninit
           IN /\ tmp' = v
              /\ calls' = Append(calls, [arg |-> it, ok |-> ok, ret |-> v])
              /\ panicked' = IF ok THEN panicked ELSE it
              /\ pc' = AfterCall(ok, next)

\* the argument of ptr::write(elem, callback(i))   (general path)
GCall ==
    /\ pc = "gcall"
    /\ CallCallback("gwrite")
    /\ UNCHANGED <<N, form, ignoresIndex, needsDrop, arr, armed, position, it,
                   dropI, dropLog, result, run, prev>>

\* Variant: the cursor is advanced past the slot right after the write.
GWriteAdvance ==
    /\ pc = "gwrite"
    /\ arr' = PtrWrite(arr, it, tmp)
    /\ tmp' = Uninit
    /\ position' = it + 1
    /\ it' = NextIndex(it)
    /\ pc' = "gnext"
    /\ UNCHANGED <<N, form, ignoresIndex, beh, needsDrop, armed, evals, calls,
                   dropI, dropLog, panicked, result, run, prev>>

\* ptr::write(elem, ...) and the step of enumerate()   (general path)
GWrite ==
    /\ pc = "gwrite"
    /\ arr' = PtrWrite(arr, it, tmp)
    /\ tmp' = Uninit
    /\ it' = NextIndex(it)
    /\ pc' = "gnext"
    /\ UNCHANGED <<N, form, ignoresIndex, beh, needsDrop, armed, position,
                   evals, calls, dropI, dropLog, panicked, result, run, prev>>

\* mem::forget(vec); the end of the if block, where a guard that is still
\* alive would be dropped.
Forget ==
    /\ pc = "forget"
    /\ armed' = MemForget(armed)
    /\ dropI' = DropStart
    /\ pc' = IF MemForget(armed) THEN "drop" ELSE "into"
    /\ UNCHANGED <<N, form, ignoresIndex, beh, needsDrop, arr, position, it,
                   tmp, evals, calls, dropLog, panicked, result, run, prev>>

\* Variant: the trivial-destructor loop stops one slot early.
TNextShort ==
    /\ pc = "tnext"
    /\ pc' = IF HasNext(it + 1, N) THEN "tcall" ELSE "into"
    /\ UNCHANGED <<N, form, ignoresIndex, beh, needsDrop, arr, armed, position,
                   it, tmp, evals, calls, dropI, dropLog, panicked, result,
                   run, prev>>

\* for (i, elem) in arr.iter_mut().enumerate()   (trivial-destructor path)
TNext ==
    /\ pc = "tnext"
    /\ pc' = IF HasNext(it, N) THEN "tcall" ELSE "into"
    /\ UNCHANGED <<N, form, ignoresIndex, beh, needsDrop, arr, armed, position,
                   it, tmp, evals, calls, dropI, dropLog, panicked, result,
                   run, prev>>

\* the argument of ptr::write(elem, callback(i))   (trivial-destructor path)
TCall ==
    /\ pc = "tcall"
    /\ CallCallback("twrite")
    /\ UNCHANGED <<N, form, ignoresIndex, needsDrop, arr, armed, position, it,
                   dropI, dropLog, result, run, prev>>

\* ptr::write(elem, ...) and the step of enumerate()   (trivial path)
TWrite ==
    /\ pc = "twrite"
    /\ arr' = PtrWrite(arr, it, tmp)
    /\ tmp' = Uninit
    /\ it' = NextIndex(it)
    /\ pc' = "tnext"
    /\ UNCHANGED <<N, form, ignoresIndex, beh, needsDrop, armed, position,
                   evals, calls, dropI, dropLog, panicked, result, run, prev>>

\* Variant: the panic reaches the caller without the guard being dropped.
UnwindSkipGuard ==
    /\ pc = "unwind"
    /\ dropI' = DropStart
    /\ pc' = "aborted"
    /\ UNCHANGED <<N, form, ignoresIndex, beh, needsDrop, arr, armed, position,
                   it, tmp, evals, calls, dropLog, panicked, result, run,
                   prev>>

\* A panic leaves the unsafe block: the locals are dropped.  arr is a
\* ManuallyDrop and drops nothing; a live ArrayVec runs its destructor.
Unwind ==
    /\ pc = "unwind"
    /\ dropI' = DropStart
    /\ pc' = IF armed THEN "drop" ELSE "aborted"
    /\ UNCHANGED <<N, form, ignoresIndex, beh, needsDrop, arr, armed, position,
                   it, tmp, evals, calls, dropLog, panicked, result, run,
                   prev>>

\* ArrayVec::drop: for i in 0..self.position { drop_in_place(slice[i]) }
DropStep ==
    /\ pc = "drop"
    /\ IF DropHasNext(dropI, position)
       THEN /\ dropLog' = Append(dropLog, DropIndex(dropI, position))
            /\ dropI' = dropI + 1
            /\ UNCHANGED <<pc, armed>>
       ELSE /\ armed' = FALSE
            /\ pc' = AfterDrop(panicked)
            /\ UNCHANGED <<dropLog, dropI>>
    /\ UNCHANGED <<N, form, ignoresIndex, beh, needsDrop, arr, position, it,
                   tmp, evals, calls, panicked, result, run, prev>>

\* ManuallyDrop::into_inner(arr): the array is handed to the caller.
IntoInner ==
    /\ pc = "into"
    /\ result' = IntoInnerValue(arr)
    /\ pc' = "returned"
    /\ UNCHANGED <<N, form, ignoresIndex, beh, needsDrop, arr, armed, position,
                   it, tmp, evals, calls, dropI, dropLog, panicked, run, prev>>

\* The caller invokes array! again with the same count and an initializer of
\* the same behaviour, through any call syntax that can express it and for
\* an element type of either drop-class.
Reinvoke ==
    /\ Terminal
    /\ run < MaxRuns
    /\ run' = run + 1
    /\ prev' = [calls |-> calls, pc |-> pc, result |-> result,
                form |-> form, needsDrop |-> needsDrop]
    /\ form' \in Forms
    /\ (form' = "value") => ignoresIndex
    /\ needsDrop' \in BOOLEAN
    /\ pc' = "start"
    /\ arr' = [k \in {} |-> Uninit]
    /\ armed' = FALSE
    /\ position' = 0
    /\ it' = 0
    /\ tmp' = Uninit
    /\ evals' = 0
    /\ calls' = <<>>
    /\ dropI' = 0
    /\ dropLog' = <<>>
    /\ panicked' = NoPanic
    /\ result' = NoResult
    /\ UNCHANGED <<N, ignoresIndex, beh>>

Next ==
    \/ Begin
    \/ MakeVec
    \/ GNext
    \/ GSetPos
    \/ GCall
    \/ GWrite
    \/ Forget
    \/ TNext
    \/ TCall
    \/ TWrite
    \/ Unwind
    \/ DropStep
    \/ IntoInner
    \/ Reinvoke

Spec == Init /\ [][Next]_vars

\* The steps of one invocation.  The expansion is straight-line sequential
\* code on the calling thread: while it has not ended, its next statement is
\* executed.  Whether the caller invokes array! again is up to the caller.
Step ==
    \/ Begin \/ MakeVec \/ GNext \/ GSetPos \/ GCall \/ GWrite \/ Forget
    \/ TNext \/ TCall \/ TWrite \/ Unwind \/ DropStep \/ IntoInner

LiveSpec == Spec /\ WF_vars(Step)

\* --------------------------------------------------------- type invariant
TypeOK ==
    /\ N \in 0 .. MaxN
    /\ run \in 1 .. MaxRuns
    /\ it \in 0 .. N
    /\ position \in 0 .. N
    /\ pc \in {"start", "mkvec", "gnext", "gpos", "gcall", "gwrite", "forget",
               "tnext", "tcall", "twrite", "unwind", "drop", "into",
               "returned", "aborted"}

\* ------------------------------------------------------------ properties

\* Number of drop_in_place calls made on slot j.
DropCount(j) == Cardinality({p \in 1 .. Len(dropLog) : dropLog[p] = j})

\* The logged calls have the arguments 0, 1, 2, ... in this order.
AscendingCalls == \A p \in 1 .. Len(calls) : calls[p].arg = p - 1

\* The objects held by the slots of the returned array.
ResultIds == {result.arr[i].id : i \in DOMAIN result.arr}

\* C1: when init(k) panics on the general path, every slot below k holds a
\* constructed element, none of them is ever destroyed twice, and once the
\* panic has reached the caller each of them has been destroyed exactly once.
C1_ConstructedDestroyedOnce ==
    (needsDrop /\ panicked # NoPanic) =>
        \A j \in 0 .. (panicked - 1) :
            /\ arr[j] # Uninit
            /\ DropCount(j) <= 1
            /\ (pc = "aborted") => (DropCount(j) = 1)

C1_Witness ==
    /\ needsDrop /\ pc = "aborted" /\ N = 3 /\ panicked = 2
    /\ DropCount(0) = 1 /\ DropCount(1) = 1

\* C2: when init(k) panics, no slot at an index >= k ever has its destructor
\* invoked; when k = 0 the cursor is 0 and nothing is destroyed.
C2_NoDropAtOrAfterFailure ==
    (panicked # NoPanic) =>
        /\ \A p \in 1 .. Len(dropLog) : dropLog[p] < panicked
        /\ (panicked = 0) => (position = 0 /\ dropLog = <<>>)

C2_Witness ==
    /\ needsDrop /\ pc = "aborted" /\ N = 3 /\ panicked = 1
    /\ dropLog = <<0>> /\ arr[1] = Uninit /\ arr[2] = Uninit

\* C3: while no initializer call panics, the calls made so far have the
\* arguments 0, 1, 2, ... in ascending order without repeats or gaps, never
\* more than N of them, and exactly N when the array is returned, on both
\* paths.
C3_CallsAscendingExactlyN ==
    (panicked = NoPanic) =>
        /\ AscendingCalls
        /\ Len(calls) <= N
        /\ (pc = "returned") => (Len(calls) = N)

C3_Witness ==
    /\ pc = "returned" /\ N = 3 /\ needsDrop
    /\ Len(calls) = 3 /\ calls[1].arg = 0 /\ calls[2].arg = 1 /\ calls[3].arg = 2

\* C4: the returned array has exactly N elements and its element i is the
\* value returned by the one call made with argument i.
C4_ElementIsCallResult ==
    (pc = "returned") =>
        /\ result.some
        /\ DOMAIN result.arr = Slots
        /\ \A i \in Slots :
              /\ \E p \in 1 .. Len(calls) : calls[p].arg = i
              /\ \A p \in 1 .. Len(calls) :
                    (calls[p].arg = i) =>
                        (calls[p].ok /\ result.arr[i] = calls[p].ret)

C4_Witness ==
    /\ pc = "returned" /\ N = 3 /\ form = "callback" /\ ~ignoresIndex
    /\ \A i \in Slots : result.arr[i].val = i

\* C5: when init(k) panics, the initializer has been called exactly k+1
\* times, with the arguments 0..k in ascending order, only the last call
\* failed, and this stays so for the rest of the invocation.
C5_CallsStopAtFailure ==
    (panicked # NoPanic) =>
        /\ Len(calls) = panicked + 1
        /\ AscendingCalls
        /\ \A p \in 1 .. Len(calls) : calls[p].ok <=> (p <= panicked)

C5_Witness ==
    /\ pc = "aborted" /\ N = 3 /\ panicked = 1 /\ Len(calls) = 2

\* C6: once an initializer call has panicked, the invocation never returns
\* an array and never resumes the loop: it only unwinds, and ends with the
\* panic at the caller.
C6_PanicPropagates ==
    (panicked # NoPanic) =>
        /\ pc \in {"unwind", "drop", "aborted"}
        /\ result = NoResult

C6_Witness ==
    /\ pc = "aborted" /\ needsDrop /\ N = 3 /\ panicked = 2 /\ result = NoResult

\* C7: when the general path returns, the guard is gone, no destructor has
\* run on any slot, and every element of the returned array is constructed.
C7_DisarmedOnSuccess ==
    (pc = "returned" /\ needsDrop) =>
        /\ ~armed
        /\ dropLog = <<>>
        /\ \A i \in Slots : result.arr[i] # Uninit

C7_Witness ==
    /\ pc = "returned" /\ needsDrop /\ N = 3 /\ dropLog = <<>>
    /\ Cardinality(ResultIds) = 3

\* C8: for N = 0 the initializer is never called, no destructor runs, and
\* the invocation ends by returning the empty array, on both paths.
C8_ZeroLength ==
    (N = 0) =>
        /\ calls = <<>>
        /\ evals = 0
        /\ dropLog = <<>>
        /\ pc \notin {"unwind", "drop", "aborted"}
        /\ (pc = "returned") => (result = [some |-> TRUE, arr |-> Uninitialized(0)])

C8_Witness ==
    /\ pc = "returned" /\ N = 0 /\ run = 2 /\ needsDrop # prev.needsDrop
    /\ prev.pc = "returned"

\* C9: two invocations with the same count, the same initializer and the
\* same call syntax, one on each path, make the same sequence of initializer
\* calls and end in the same outcome with the same array.
C9_PathsAgree ==
    (run > 1 /\ Terminal /\ prev.form = form /\ prev.needsDrop # needsDrop) =>
        /\ calls = prev.calls
        /\ pc = prev.pc
        /\ result = prev.result

C9_Witness ==
    /\ run > 1 /\ Terminal /\ prev.form = form /\ prev.needsDrop /\ ~needsDrop
    /\ N = 3 /\ pc = "aborted" /\ panicked = 2

\* C10: the value form and a closure form whose closure ignores its index
\* behave alike, and an array returned for the value form comes from N
\* evaluations of the expression, each slot holding the object of its own
\* evaluation.
C10_ValueFormFresh ==
    /\ (run > 1 /\ Terminal /\ prev.form = "value" /\ form # "value") =>
          /\ calls = prev.calls
          /\ pc = prev.pc
          /\ result = prev.result
    /\ (pc = "returned" /\ form = "value") =>
          /\ evals = N
          /\ \A i \in Slots : result.arr[i].id = i + 1
          /\ Cardinality(ResultIds) = N

C10_Witness ==
    /\ run > 1 /\ pc = "returned" /\ prev.form = "value" /\ form = "callback"
    /\ N = 2 /\ prev.result.arr[0].val = prev.result.arr[1].val
    /\ prev.result.arr[0].id # prev.result.arr[1].id

\* Number of slots that hold a constructed element not yet destroyed.
LiveCount ==
    Cardinality({j \in DOMAIN arr : arr[j] # Uninit /\ DropCount(j) = 0})

\* C11 (claim): an invocation that has ended has either handed the storage
\* to the caller, with no destructor run, or has given the caller nothing and
\* destroyed every constructed element that needs destroying exactly once.
C11_HandoffXorTeardown ==
    Terminal =>
        /\ (pc = "returned") => (result.some /\ result.arr = arr /\ dropLog = <<>>)
        /\ (pc = "aborted") =>
              /\ result = NoResult
              /\ \A j \in Slots :
                    DropCount(j) = (IF needsDrop /\ arr[j] # Uninit THEN 1 ELSE 0)

C11_Witness ==
    /\ pc = "aborted" /\ needsDrop /\ N = 2 /\ panicked = 1
    /\ result = NoResult /\ DropCount(0) = 1 /\ DropCount(1) = 0

\* C12 (claim as stated): on the general path, whenever code outside the
\* expansion runs (the initializer is about to be called, or the guard is
\* cleaning up), the cursor equals the number of constructed, not yet
\* destroyed slots.
C12_Original_CursorEqualsLive ==
    (needsDrop /\ pc \in {"gcall", "drop"}) => (position = LiveCount)

\* C12 (amended): on the general path the cursor equals the number of
\* constructed slots whenever the initializer is called and when the guard
\* starts its cleanup; during the cleanup the cursor stays put while the live
\* slots go down to zero; and every slot whose destructor is invoked lies
\* below the cursor.
C12_CursorAtCallAndCleanup ==
    needsDrop =>
        /\ (pc = "gcall") => (position = LiveCount)
        /\ (pc = "drop") => (LiveCount = position - dropI)
        /\ \A p \in 1 .. Len(dropLog) : dropLog[p] < position

C12_Witness ==
    /\ needsDrop /\ pc = "drop" /\ N = 3 /\ position = 2 /\ dropI = 1
    /\ LiveCount = 1

\* C13 (claim as stated): on the general path the cursor has been advanced
\* past every written slot when the loop asks for the next one, and it is N
\* when the guard is disarmed.
C13_Original_CursorAdvancedAfterWrite ==
    needsDrop =>
        /\ (pc = "gnext") => (position = it)
        /\ (pc = "forget") => (position = N)

\* C13 (amended): on the general path the cursor is set to i before init(i)
\* is called; a successful init(i) is followed by the write of slot i, the
\* cursor staying at i until the next iteration sets it; a failing init(i)
\* leaves the cursor at i; and when the guard is disarmed the cursor is N-1
\* (0 for N = 0).
C13_CursorSetBeforeCall ==
    needsDrop =>
        /\ (pc \in {"gcall", "gwrite"}) => (position = it)
        /\ (pc = "gnext" /\ it > 0) =>
              (position = it - 1 /\ arr[it - 1] # Uninit)
        /\ (panicked # NoPanic) => (position = panicked)
        /\ (pc = "forget") => (position = IF N = 0 THEN 0 ELSE N - 1)

C13_Witness ==
    /\ needsDrop /\ pc = "forget" /\ N = 3 /\ position = 2 /\ LiveCount = 3

\* C14: on the general path destructors run only inside the guard's cleanup,
\* while the panic is still unwinding, and at the step that delivers the
\* panic to the caller every slot below the failing index has been destroyed.
C14_CleanupBeforeAbortObserved ==
    [][needsDrop =>
          /\ (dropLog' # dropLog /\ pc' # "start") =>
                (pc = "drop" /\ pc' = "drop" /\ panicked # NoPanic)
          /\ (pc # "aborted" /\ pc' = "aborted") =>
                (\A j \in 0 .. (panicked - 1) : DropCount(j)' = 1)]_vars

C14_Witness ==
    /\ needsDrop /\ pc = "aborted" /\ N = 3 /\ panicked = 1
    /\ dropLog = <<0>> /\ ~armed

\* C15: on the trivial-destructor path no guard is built, the cursor is never
\* touched and no destructor is invoked; a panic of init(k) ends the loop
\* after k+1 calls and reaches the caller, who gets no array.
C15_TrivialPathNoCleanup ==
    (~needsDrop /\ pc # "start") =>
        /\ ~armed
        /\ position = 0
        /\ dropLog = <<>>
        /\ pc \in {"tnext", "tcall", "twrite", "unwind", "into", "returned",
                   "aborted"}
        /\ (panicked # NoPanic) =>
              /\ Len(calls) = panicked + 1
              /\ pc \in {"unwind", "aborted"}
              /\ result = NoResult

C15_Witness ==
    /\ ~needsDrop /\ pc = "aborted" /\ N = 3 /\ panicked = 2
    /\ arr[0] # Uninit /\ arr[1] # Uninit /\ dropLog = <<>>

\* C16: at every point the written slots are exactly the slots below the
\* loop counter, slot i holds the value returned by the call init(i), and a
\* written slot is never written again.
C16_WrittenSlotsArePrefix ==
    /\ [](\A j \in DOMAIN arr :
             /\ (arr[j] # Uninit) <=> (j < it)
             /\ (arr[j] # Uninit) =>
                   /\ j + 1 <= Len(calls)
                   /\ calls[j + 1].arg = j
                   /\ calls[j + 1].ok
                   /\ arr[j] = calls[j + 1].ret)
    /\ [][\A j \in DOMAIN arr \cap DOMAIN arr' :
             /\ (arr[j] # Uninit) => (arr'[j] = arr[j])
             /\ (arr'[j] # arr[j]) =>
                   (j = it /\ pc \in {"gwrite", "twrite"} /\ arr'[j] = tmp)]_vars

C16_Witness ==
    /\ pc \in {"gcall", "tcall"} /\ N = 3 /\ it = 2
    /\ arr[0] # Uninit /\ arr[1] # Uninit /\ arr[2] = Uninit

\* C17: the guard destroys the slots in ascending index order: the p-th
\* destructor call is on slot p-1, and after a panic of init(k) has reached
\* the caller the calls were on 0, 1, ..., k-1.
C17_CleanupAscending ==
    /\ \A p \in 1 .. Len(dropLog) : dropLog[p] = p - 1
    /\ (needsDrop /\ pc = "aborted") => (Len(dropLog) = panicked)

C17_Witness ==
    /\ needsDrop /\ pc = "aborted" /\ N = 3 /\ panicked = 2
    /\ dropLog = <<0, 1>>

\* C18: every invocation that has started eventually ends, returned or
\* aborted, and at no point has it made more than N initializer calls or
\* run more than N destructors.
C18_Terminates ==
    /\ (pc = "start") ~> Terminal
    /\ [](Len(calls) <= N /\ Len(dropLog) <= N)

C18_Witness ==
    /\ Terminal /\ pc = "aborted" /\ needsDrop /\ N = 3
    /\ Len(calls) = 3 /\ Len(dropLog) = 2

====
